---- MODULE Spec2Model ----
(***************************************************************************)
(* interview_notify.py: a scanner thread polls a directory for the most    *)
(* recently modified log file and keeps one parser thread tailing it; the  *)
(* parser thread matches every line against five trigger rules and posts   *)
(* a notification for the first rule that matches.                         *)
(*                                                                         *)
(* Text is modelled as a sequence of symbols.  A symbol stands for one     *)
(* character ("<", ">", " ", ":", LF) or for one literal word of the       *)
(* program or of its configuration that is never split: "M" is the marker  *)
(* 'Currently interviewing:', "a" the operator's nick, "G" the bot nick    *)
(* Gatekeeper, "x" some other nick, "quit" ... "kick" the keywords.        *)
(***************************************************************************)
EXTENDS Naturals, Sequences, FiniteSets

VARIABLES
  dir,        \* the watched directory: its file names, in iterdir() order
  removed,    \* names of files that were deleted from the directory
  content,    \* content[f]: the symbols of file f
  mtime,      \* mtime[f]: st_mtime of file f, as its rank among the stamps in the directory
  nwrites,    \* number of writes the log writer has made
  scanner,    \* the scanner thread: pc, curr, parser (index of its parser thread)
  sess,       \* the parser threads ever spawned, each with its stop event and tail state
  delivered,  \* every line tail has yielded to log_parse, in order, with its notify calls
  args,       \* the parsed command line: nick, bot_nicks, check_bot_nicks
  mline,      \* matcher harness: the words of the line under test
  mnotes,     \* matcher harness: the notify calls log_parse made for mline
  mdone       \* matcher harness: log_parse has run on mline

mvars ==
  <<mline, mnotes, mdone>>

tvars ==
  <<dir, removed, content, mtime, nwrites, scanner, sess, delivered>>

vars ==
  <<dir, removed, content, mtime, nwrites, scanner, sess, delivered, args, mline, mnotes, mdone>>

\* ------------------------------------------------------------------ bounds
MaxWords ==
  4

MaxWrites ==
  2

MaxSessions ==
  3

\* ------------------------------------------------------------------ text
LF ==
  "\n"

\* Python's `t in s` on strings.
Contains(s, t) ==
  \E i \in 0..Len(s) :
    /\ i + Len(t) <= Len(s)
    /\ SubSeq(s, i + 1, i + Len(t)) = t

\* str.lower(), symbol by symbol.
LowerSym(c) ==
  CASE c = "KICK" -> "kick"
    [] c = "M" -> "m"
    [] c = "G" -> "g"
    [] OTHER -> c

lower(s) ==
  [i \in 1..Len(s) |-> LowerSym(s[i])]

\* str.split(sep) for a one-symbol separator.
RECURSIVE SplitFrom(_, _, _, _)
SplitFrom(s, sep, i, cur) ==
  IF i > Len(s) THEN <<cur>>
  ELSE IF s[i] = sep THEN <<cur>> \o SplitFrom(s, sep, i + 1, <<>>)
  ELSE SplitFrom(s, sep, i + 1, Append(cur, s[i]))

split(s, sep) ==
  SplitFrom(s, sep, 1, <<>>)

\* The end of the leftmost shortest match of '<.*?>' that starts at i, or 0:
\* '.' matches anything but a line feed.
RECURSIVE TagEnd(_, _)
TagEnd(s, j) ==
  IF j > Len(s) THEN 0
  ELSE IF s[j] = ">" THEN j
  ELSE IF s[j] = LF THEN 0
  ELSE TagEnd(s, j + 1)

RECURSIVE StripFrom(_, _)
StripFrom(s, i) ==
  IF i > Len(s) THEN <<>>
  ELSE IF s[i] = "<" /\ TagEnd(s, i + 1) > 0 THEN StripFrom(s, TagEnd(s, i + 1) + 1)
  ELSE <<s[i]>> \o StripFrom(s, i + 1)

remove_html_tags(text) ==
  StripFrom(text, 1)

\* ------------------------------------------------------------------ matcher
bot_nicks_list ==
  split(args.bot_nicks, ",")

bot_nick_prefix(trigger) ==
  [k \in 1..Len(bot_nicks_list) |-> bot_nicks_list[k] \o <<">", " ">> \o trigger]

\* A faulty variant: the disregard_bot_nicks flag is not honoured.
check_trigger_always_qualified(line, trigger, disregard_bot_nicks) ==
  IF ~args.check_bot_nicks
  THEN Contains(remove_html_tags(line), trigger)
  ELSE \E k \in 1..Len(bot_nick_prefix(trigger)) :
         Contains(line, bot_nick_prefix(trigger)[k])

check_trigger(line, trigger, disregard_bot_nicks) ==
  IF disregard_bot_nicks \/ ~args.check_bot_nicks
  THEN Contains(remove_html_tags(line), trigger)
  ELSE \E k \in 1..Len(bot_nick_prefix(trigger)) :
         Contains(line, bot_nick_prefix(trigger)[k])

check_words(line, triggers, check_nick) ==
  \E t \in 1..Len(triggers) : \E b \in 1..Len(bot_nicks_list) :
    IF check_nick
    THEN /\ Contains(line, args.nick)
         /\ Contains(line, bot_nicks_list[b])
         /\ Contains(lower(line), triggers[t])
    ELSE /\ Contains(line, bot_nicks_list[b])
         /\ Contains(line, triggers[t])

Marker ==
  <<"M">>

SelfTrigger ==
  Marker \o <<" ">> \o args.nick

MentionTrigger ==
  args.nick \o <<":">>

NetsplitWords ==
  << <<"quit">>, <<"disconnect">>, <<"part">>, <<"left">>, <<"leave">>, <<"net">>, <<"split">> >>

KickWords ==
  << <<"kick">> >>

\* A faulty variant: the rules are tested with `if`, not `elif`.
log_parse_line_all_rules(line) ==
  (IF check_trigger(line, SelfTrigger, FALSE) THEN <<"Your interview is happening">> ELSE <<>>)
  \o (IF check_trigger(line, Marker, FALSE) THEN <<"Interview detected">> ELSE <<>>)
  \o (IF check_trigger(line, MentionTrigger, TRUE) THEN <<"You've been mentioned">> ELSE <<>>)
  \o (IF check_words(line, NetsplitWords, FALSE) THEN <<"Netsplit detected">> ELSE <<>>)
  \o (IF check_words(line, KickWords, TRUE) THEN <<"You've been kicked">> ELSE <<>>)

\* A faulty variant: the mention rule is tested before the interview rules.
log_parse_line_mention_first(line) ==
  IF check_trigger(line, MentionTrigger, TRUE) THEN <<"You've been mentioned">>
  ELSE IF check_trigger(line, SelfTrigger, FALSE) THEN <<"Your interview is happening">>
  ELSE IF check_trigger(line, Marker, FALSE) THEN <<"Interview detected">>
  ELSE IF check_words(line, NetsplitWords, FALSE) THEN <<"Netsplit detected">>
  ELSE IF check_words(line, KickWords, TRUE) THEN <<"You've been kicked">>
  ELSE <<>>

\* The notify calls of one pass of log_parse's loop body, in order, by title.
log_parse_line(line) ==
  IF check_trigger(line, SelfTrigger, FALSE) THEN <<"Your interview is happening">>
  ELSE IF check_trigger(line, Marker, FALSE) THEN <<"Interview detected">>
  ELSE IF check_trigger(line, MentionTrigger, TRUE) THEN <<"You've been mentioned">>
  ELSE IF check_words(line, NetsplitWords, FALSE) THEN <<"Netsplit detected">>
  ELSE IF check_words(line, KickWords, TRUE) THEN <<"You've been kicked">>
  ELSE <<>>

\* ------------------------------------------------------------------ files
Files ==
  {"log1", "log2"}

NoFile ==
  "none"

\* What the log writer appends in one write: the start of a line, or its end.
\* "a" then ":" LF is the line 'a:'; ":" LF alone is the line ':'.
Chunks ==
  { <<"a">>, <<":", LF>> }

Range(q) ==
  {q[i] : i \in 1..Len(q)}

Max(S) ==
  CHOOSE m \in S : \A n \in S : n <= m

\* The newest modification time in the directory; a write is stamped with it
\* (the clock has not advanced since) or with a later time.
Newest ==
  Max({0} \cup {mtime[f] : f \in Range(dir)})

Stamps ==
  {Newest, Newest + 1}

\* Only the order of the stamps decides find_latest_log: stamps are kept as ranks
\* among the files of directory d, and a file that is not there has none.
Ranked(m, d) ==
  [f \in Files |->
     IF f \in Range(d)
     THEN Cardinality({m[g] : g \in {h \in Range(d) : m[h] < m[f]}}) + 1
     ELSE 0]

\* ------------------------------------------------------------------ scanner
IgnoredNames ==
  {".DS_Store", "thumbs.db"}

IsEligible(f) ==
  f \notin IgnoredNames

\* A faulty variant: among the files with the largest key, one that is not the
\* scanner's current file is preferred.
MaxByMtimeAvoidsCurrent(files) ==
  LET top == {i \in 1..Len(files) : \A j \in 1..Len(files) : mtime[files[j]] <= mtime[files[i]]}
      other == {i \in top : files[i] # scanner.curr}
  IN  files[CHOOSE i \in top :
              /\ other # {} => i \in other
              /\ \A j \in top : (other # {} => j \in other) => i <= j]

\* max(files, key=st_mtime): the first of the files with the largest key.
MaxByMtime(files) ==
  files[CHOOSE i \in 1..Len(files) :
          /\ \A j \in 1..Len(files) : mtime[files[j]] <= mtime[files[i]]
          /\ \A j \in 1..(i - 1) : mtime[files[j]] < mtime[files[i]]]

\* NoFile stands for crit_quit('no log files found'): sys.exit() raises SystemExit
\* in the calling thread.
find_latest_log ==
  LET files == SelectSeq(dir, IsEligible)
  IN  IF Len(files) = 0 THEN NoFile ELSE MaxByMtime(files)

\* A new thread object with its own stop event, bound to log_path and started.
spawn_parser(log_path) ==
  [ log_path |-> log_path, parser_stop |-> FALSE, pc |-> "start",
    size0 |-> 0, pos |-> 0, open |-> FALSE, ret |-> "" ]

IsAlive(s) ==
  sess[s].pc \notin {"done", "crashed"}

\* log_scan up to the loop: the first poll, then the first parser thread.
log_scan_first ==
  /\ scanner.pc = "first"
  /\ IF find_latest_log = NoFile
     THEN /\ scanner' = [scanner EXCEPT !.pc = "exited"]
          /\ UNCHANGED sess
     ELSE /\ sess' = Append(sess, spawn_parser(find_latest_log))
          /\ scanner' = [pc |-> "poll", curr |-> find_latest_log, parser |-> Len(sess) + 1]
  /\ UNCHANGED <<dir, removed, content, mtime, nwrites, delivered, args, mline, mnotes, mdone>>

\* A faulty variant: a poll that finds no file also sets the stop event of the
\* running parser thread.
log_scan_poll_empty_stops ==
  /\ scanner.pc = "poll"
  /\ find_latest_log # scanner.curr => Len(sess) < MaxSessions
  /\ scanner' =
       IF find_latest_log = NoFile THEN [scanner EXCEPT !.pc = "exited"]
       ELSE IF scanner.curr # find_latest_log
            THEN [scanner EXCEPT !.pc = "stop", !.curr = find_latest_log]
            ELSE scanner
  /\ sess' =
       IF find_latest_log = NoFile
       THEN [sess EXCEPT ![scanner.parser].parser_stop = TRUE]
       ELSE sess
  /\ UNCHANGED <<dir, removed, content, mtime, nwrites, delivered, args, mline, mnotes, mdone>>

\* A faulty variant: every poll that finds a file replaces the session, whether
\* or not the file is the current one.
log_scan_poll_always_rotates ==
  /\ scanner.pc = "poll"
  /\ find_latest_log # NoFile => Len(sess) < MaxSessions
  /\ scanner' =
       IF find_latest_log = NoFile THEN [scanner EXCEPT !.pc = "exited"]
       ELSE [scanner EXCEPT !.pc = "stop", !.curr = find_latest_log]
  /\ UNCHANGED <<dir, removed, content, mtime, nwrites, sess, delivered, args, mline, mnotes, mdone>>

\* A faulty variant: the scanner thread survives a poll that finds no file and
\* polls again.
log_scan_poll_survives_empty ==
  /\ scanner.pc \in {"poll", "exited"}
  /\ scanner.parser # 0
  /\ find_latest_log # scanner.curr => Len(sess) < MaxSessions
  /\ scanner' =
       IF find_latest_log = NoFile THEN [scanner EXCEPT !.pc = "exited"]
       ELSE IF scanner.curr # find_latest_log
            THEN [scanner EXCEPT !.pc = "stop", !.curr = find_latest_log]
            ELSE scanner
  /\ UNCHANGED <<dir, removed, content, mtime, nwrites, sess, delivered, args, mline, mnotes, mdone>>

\* One pass of the loop up to the comparison: sleep, poll, compare.
log_scan_poll ==
  /\ scanner.pc = "poll"
  /\ find_latest_log # scanner.curr => Len(sess) < MaxSessions
  /\ scanner' =
       IF find_latest_log = NoFile THEN [scanner EXCEPT !.pc = "exited"]
       ELSE IF scanner.curr # find_latest_log
            THEN [scanner EXCEPT !.pc = "stop", !.curr = find_latest_log]
            ELSE scanner
  /\ UNCHANGED <<dir, removed, content, mtime, nwrites, sess, delivered, args, mline, mnotes, mdone>>

\* parser_stop.set()
log_scan_stop ==
  /\ scanner.pc = "stop"
  /\ sess' = [sess EXCEPT ![scanner.parser].parser_stop = TRUE]
  /\ scanner' = [scanner EXCEPT !.pc = "join"]
  /\ UNCHANGED <<dir, removed, content, mtime, nwrites, delivered, args, mline, mnotes, mdone>>

\* A faulty variant: the scanner does not wait for the old parser thread.
JoinReturnsAtOnce ==
  TRUE

\* parser.join() returns once the old thread has ended.
JoinReturns ==
  ~IsAlive(scanner.parser)

\* parser.join(), then the new parser thread.
log_scan_join ==
  /\ scanner.pc = "join"
  /\ JoinReturns
  /\ sess' = Append(sess, spawn_parser(scanner.curr))
  /\ scanner' = [scanner EXCEPT !.pc = "poll", !.parser = Len(sess) + 1]
  /\ UNCHANGED <<dir, removed, content, mtime, nwrites, delivered, args, mline, mnotes, mdone>>

\* ------------------------------------------------------------------ tailer
\* Index of the last line feed of c at or before n, or 0.
RECURSIVE LastLF(_, _)
LastLF(c, n) ==
  IF n = 0 THEN 0 ELSE IF c[n] = LF THEN n ELSE LastLF(c, n - 1)

\* Index of the first line feed of c after p, or Len(c).
RECURSIVE LineEnd(_, _)
LineEnd(c, p) ==
  IF p >= Len(c) THEN Len(c) ELSE IF c[p + 1] = LF THEN p + 1 ELSE LineEnd(c, p + 1)

\* Where the text of the last line ends: a final line feed is not part of it.
LastLineEnd(c) ==
  IF c[Len(c)] = LF THEN Len(c) - 1 ELSE Len(c)

LastLineStart(c) ==
  LastLF(c, LastLineEnd(c)) + 1

\* A faulty variant: the last line of the file is not read back.
BackwardReadlineNothing(c) ==
  <<>>

\* FileReadBackwards.readline(): the last line without its end, plus os.linesep;
\* '' for an empty file.
BackwardReadline(c) ==
  IF Len(c) = 0 THEN <<>>
  ELSE SubSeq(c, LastLineStart(c), LastLineEnd(c)) \o <<LF>>

\* f.readline() at position p: up to and including the next line feed, or up to
\* the end of the file when no line feed has been written yet.
Readline(c, p) ==
  SubSeq(c, p + 1, LineEnd(c, p))

\* `yield line` into log_parse's loop body: the line is matched and notify called.
Yielded(s, from, to, line) ==
  [ sess |-> s, path |-> sess[s].log_path, from |-> from, to |-> to,
    notes |-> log_parse_line(line) ]

\* Where the parser thread is after log_parse has taken the line: inside
\* requests.post when a rule matched, else back in tail at `resume`.
AfterYield(line, resume) ==
  IF log_parse_line(line) # <<>> THEN "post" ELSE resume

\* tail's first with-block: open the file backwards, read its last line, yield it.
tail_backward(s) ==
  /\ s \in DOMAIN sess
  /\ sess[s].pc = "start"
  /\ LET f == sess[s].log_path
         c == content[f]
         line == BackwardReadline(c)
     IN  IF f \notin Range(dir)
         THEN /\ sess' = [sess EXCEPT ![s].pc = "crashed"]
              /\ UNCHANGED delivered
         ELSE IF line # <<>>
         THEN /\ delivered' = Append(delivered, Yielded(s, LastLineStart(c), Len(c), line))
              /\ sess' = [sess EXCEPT ![s].size0 = Len(c),
                                      ![s].pc = AfterYield(line, "reopen"),
                                      ![s].ret = "reopen",
                                      ![s].open = (AfterYield(line, "reopen") = "post")]
         ELSE /\ sess' = [sess EXCEPT ![s].size0 = Len(c), ![s].pc = "reopen"]
              /\ UNCHANGED delivered
  /\ UNCHANGED <<dir, removed, content, mtime, nwrites, scanner, args, mline, mnotes, mdone>>

\* requests.post returns: log_parse asks tail for the next line.
notify_return(s) ==
  /\ s \in DOMAIN sess
  /\ sess[s].pc = "post"
  /\ sess' = [sess EXCEPT ![s].pc = sess[s].ret,
                          ![s].open = (sess[s].ret # "reopen")]
  /\ UNCHANGED <<dir, removed, content, mtime, nwrites, scanner, delivered, args, mline, mnotes, mdone>>

\* requests.post raises: nothing catches it, the parser thread ends.
notify_raise(s) ==
  /\ s \in DOMAIN sess
  /\ sess[s].pc = "post"
  /\ sess' = [sess EXCEPT ![s].pc = "crashed", ![s].open = FALSE]
  /\ UNCHANGED <<dir, removed, content, mtime, nwrites, scanner, delivered, args, mline, mnotes, mdone>>

\* A faulty variant: the forward handle is left at the start of the file.
SeekStart(c) ==
  0

\* The position f.seek(0, 2) moves to.
SeekEnd(c) ==
  Len(c)

\* tail's second with-block starts: open(path), f.seek(0, 2).
tail_open(s) ==
  /\ s \in DOMAIN sess
  /\ sess[s].pc = "reopen"
  /\ sess' =
       IF sess[s].log_path \notin Range(dir)
       THEN [sess EXCEPT ![s].pc = "crashed"]
       ELSE [sess EXCEPT ![s].pc = "check", ![s].open = TRUE,
                         ![s].pos = SeekEnd(content[sess[s].log_path])]
  /\ UNCHANGED <<dir, removed, content, mtime, nwrites, scanner, delivered, args, mline, mnotes, mdone>>

\* while not parser_stop.is_set()
tail_check(s) ==
  /\ s \in DOMAIN sess
  /\ sess[s].pc = "check"
  /\ sess' =
       IF sess[s].parser_stop
       THEN [sess EXCEPT ![s].pc = "done", ![s].open = FALSE]
       ELSE [sess EXCEPT ![s].pc = "read"]
  /\ UNCHANGED <<dir, removed, content, mtime, nwrites, scanner, delivered, args, mline, mnotes, mdone>>

\* line = f.readline(); nothing read: sleep and test again; else yield it.
tail_readline(s) ==
  /\ s \in DOMAIN sess
  /\ sess[s].pc = "read"
  /\ LET c == content[sess[s].log_path]
         p == sess[s].pos
         line == Readline(c, p)
     IN  IF line = <<>>
         THEN /\ sess' = [sess EXCEPT ![s].pc = "check"]
              /\ UNCHANGED delivered
         ELSE /\ delivered' = Append(delivered, Yielded(s, p + 1, LineEnd(c, p), line))
              /\ sess' = [sess EXCEPT ![s].pos = LineEnd(c, p),
                                      ![s].pc = AfterYield(line, "check"),
                                      ![s].ret = "check"]
  /\ UNCHANGED <<dir, removed, content, mtime, nwrites, scanner, args, mline, mnotes, mdone>>

\* ------------------------------------------------------------------ environment
\* The IRC client appends to a log file.
write(f, chunk) ==
  /\ f \in Range(dir)
  /\ nwrites < MaxWrites
  /\ nwrites' = nwrites + 1
  /\ content' = [content EXCEPT ![f] = content[f] \o chunk]
  /\ \E t \in Stamps : mtime' = Ranked([mtime EXCEPT ![f] = t], dir)
  /\ UNCHANGED <<dir, removed, scanner, sess, delivered, args, mline, mnotes, mdone>>

\* A new, empty log file appears somewhere in the listing.
create(f) ==
  /\ f \notin Range(dir)
  /\ f \notin removed
  /\ \E i \in 0..Len(dir) :
       dir' = SubSeq(dir, 1, i) \o <<f>> \o SubSeq(dir, i + 1, Len(dir))
  /\ \E t \in Stamps : mtime' = Ranked([mtime EXCEPT ![f] = t], dir')
  /\ UNCHANGED <<removed, content, nwrites, scanner, sess, delivered, args, mline, mnotes, mdone>>

\* A log file is deleted; a thread that has it open keeps reading what it held.
remove(f) ==
  /\ f \in Range(dir)
  /\ dir' = SelectSeq(dir, LAMBDA g : g # f)
  /\ removed' = removed \cup {f}
  /\ mtime' = Ranked(mtime, dir')
  /\ UNCHANGED <<content, nwrites, scanner, sess, delivered, args, mline, mnotes, mdone>>

\* ------------------------------------------------------------------ specification
DefaultArgs ==
  [nick |-> <<"a">>, bot_nicks |-> <<"G">>, check_bot_nicks |-> TRUE]

Init ==
  /\ dir = <<>>
  /\ removed = {}
  /\ content = [f \in Files |-> <<>>]
  /\ mtime = [f \in Files |-> 0]
  /\ nwrites = 0
  /\ scanner = [pc |-> "first", curr |-> NoFile, parser |-> 0]
  /\ sess = <<>>
  /\ delivered = <<>>
  /\ args = DefaultArgs
  /\ mline = <<>>
  /\ mnotes = <<>>
  /\ mdone = FALSE

Scanner ==
  \/ log_scan_first
  \/ log_scan_poll
  \/ log_scan_stop
  \/ log_scan_join

\* One step of parser thread s, if it was ever spawned.
ParserStep(s) ==
  \/ tail_backward(s)
  \/ notify_return(s)
  \/ notify_raise(s)
  \/ tail_open(s)
  \/ tail_check(s)
  \/ tail_readline(s)

Parser ==
  \E s \in 1..MaxSessions : ParserStep(s)

Writer ==
  \E f \in Files :
    \/ \E chunk \in Chunks : write(f, chunk)
    \/ create(f)
    \/ remove(f)

Next ==
  \/ Scanner
  \/ Parser
  \/ Writer

Spec ==
  Init /\ [][Next]_vars

\* ------------------------------------------------------------------ fairness
\* Every step of the scanner thread and of a parser thread returns (a sleep ends,
\* a read returns, requests.post returns or raises): a thread that can run, runs.
FairSpec ==
  /\ Init
  /\ [][Next]_vars
  /\ WF_vars(Scanner)
  /\ \A s \in 1..MaxSessions : WF_vars(ParserStep(s))

\* ------------------------------------------------------------------ claims: tailing
Delivered(s) ==
  {i \in 1..Len(delivered) : delivered[i].sess = s}

\* Session s has read its file to the end and has not been told to stop.
CaughtUp(s) ==
  /\ sess[s].pc \in {"check", "read"}
  /\ ~sess[s].parser_stop
  /\ sess[s].pos = Len(content[sess[s].log_path])

\* C1: within one tail session, everything appended to the file after the session
\* read the file's last line is yielded to log_parse exactly once and in append
\* order: once an uncancelled session has read up to the end of the file, every
\* symbol of a whole line appended since lies in exactly one line it yielded.
C1_AppendedYieldedOnce ==
  \A s \in 1..Len(sess) :
    CaughtUp(s) =>
      \A p \in (sess[s].size0 + 1)..LastLF(content[sess[s].log_path], Len(content[sess[s].log_path])) :
        Cardinality({i \in Delivered(s) : delivered[i].from <= p /\ p <= delivered[i].to}) = 1

\* C2: across rotations no line is delivered twice over the whole run, and no line
\* appended to the most recently modified file is skipped: no two deliveries
\* overlap, and once a session started by a rotation, on the scanner's current
\* file, which is the latest one, has read it to the end, every whole line
\* appended since it started was delivered.
C2_NoMissNoDuplicate ==
  /\ \A i, j \in 1..Len(delivered) :
       (i < j /\ delivered[i].path = delivered[j].path) =>
         (delivered[i].to < delivered[j].from \/ delivered[j].to < delivered[i].from)
  /\ \A s \in 1..Len(sess) :
       ( /\ s >= 2
         /\ s = scanner.parser
         /\ scanner.pc = "poll"
         /\ scanner.curr = find_latest_log
         /\ CaughtUp(s) ) =>
         \A p \in (sess[s].size0 + 1)..LastLF(content[sess[s].log_path], Len(content[sess[s].log_path])) :
           \E i \in 1..Len(delivered) :
             /\ delivered[i].path = sess[s].log_path
             /\ delivered[i].from <= p
             /\ p <= delivered[i].to

\* The first and last symbol of the last line that file content c held when it
\* was n symbols long.
LastLineOf(c, n) ==
  <<LastLineStart(SubSeq(c, 1, n)), n>>

\* C3: a session yields the last line its file held when the session opened it
\* before any line appended to the file later.
C3_LastLineFirst ==
  \A j \in 1..Len(delivered) :
    LET s == delivered[j].sess
        n == sess[s].size0
    IN  (n > 0 /\ delivered[j].to > n) =>
          \E i \in 1..(j - 1) :
            /\ delivered[i].sess = s
            /\ <<delivered[i].from, delivered[i].to>> = LastLineOf(content[sess[s].log_path], n)

\* A session started by a rotation has yielded the old last line, then a new line.
C3_Witness ==
  \E i, j \in 1..Len(delivered) :
    /\ i < j
    /\ delivered[i].sess = delivered[j].sess
    /\ delivered[i].sess >= 2
    /\ delivered[i].to = sess[delivered[i].sess].size0
    /\ delivered[j].from > sess[delivered[j].sess].size0

\* C4: at most one parser thread is alive and at most one log file is open; every
\* parser thread but the newest was told to stop and has ended.
C4_OneParserOneHandle ==
  /\ Cardinality({s \in 1..Len(sess) : IsAlive(s)}) <= 1
  /\ Cardinality({s \in 1..Len(sess) : sess[s].open}) <= 1
  /\ \A s \in 1..(Len(sess) - 1) : sess[s].parser_stop /\ ~IsAlive(s)

\* After a rotation: the old thread returned from tail, the new one has its file open.
C4_Witness ==
  /\ Len(sess) >= 2
  /\ sess[1].pc = "done"
  /\ sess[Len(sess)].open
  /\ sess[Len(sess)].pc = "read"

\* C5: lines of two files are never interleaved: in the order of delivery (and of
\* the notify calls, made as each line is delivered) the lines of a session come
\* before those of the session that replaces it, and a session's lines are in
\* append order.
C5_NoInterleaving ==
  \A i, j \in 1..Len(delivered) :
    i < j =>
      /\ delivered[i].sess <= delivered[j].sess
      /\ delivered[i].sess = delivered[j].sess => delivered[i].to < delivered[j].from

\* Across a rotation, the old session and the new one have each delivered a line
\* of their file.
C5_Witness ==
  \E i, j \in 1..Len(delivered) :
    /\ delivered[i].sess < delivered[j].sess
    /\ delivered[i].path # delivered[j].path
    /\ sess[delivered[i].sess].pc = "done"

\* C10: whenever a poll by find_latest_log finds no eligible file, the whole
\* process terminates: eventually no thread is running.
C10_EmptyPollEndsProcess ==
  (scanner.pc = "exited") ~> (\A s \in 1..Len(sess) : ~IsAlive(s))

\* C11: when a poll made while a session is running finds the directory empty, that
\* step of the scanner leaves the session as it was: its thread is as alive as
\* before and its stop event is not set.
C11_EmptyPollKeepsSession ==
  [][ (scanner.pc = "poll" /\ scanner'.pc = "exited") =>
        /\ sess' = sess
        /\ ~sess'[scanner.parser].parser_stop ]_vars

\* The directory is empty, the scanner has ended on it, and the session it had
\* started is still reading its file with its stop event unset.
C11_Witness ==
  /\ dir = <<>>
  /\ scanner.pc = "exited"
  /\ scanner.parser # 0
  /\ sess[scanner.parser].pc = "read"
  /\ sess[scanner.parser].open
  /\ ~sess[scanner.parser].parser_stop

\* C12: notify does not hold the parser thread: a session is never inside the
\* notify call while the scanner waits to hand over from it, and a notify call
\* that fails never ends a session (a parser thread ends abnormally only because
\* its file is gone).
C12_NotifyNeverBlocks ==
  \A s \in 1..Len(sess) :
    /\ sess[s].pc = "post" => ~(scanner.pc = "join" /\ scanner.parser = s)
    /\ sess[s].pc = "crashed" => sess[s].log_path \in removed

\* C13: once the first file was found, outside a hand-off exactly one session is
\* live and it is bound to the scanner's current file: whenever the scanner is in
\* its polling loop and its current file is in the directory, the one live parser
\* thread is the scanner's, on that file.
C13_AlwaysTailing ==
  (scanner.pc = "poll" /\ scanner.curr \in Range(dir)) =>
    /\ {s \in 1..Len(sess) : IsAlive(s)} = {scanner.parser}
    /\ sess[scanner.parser].log_path = scanner.curr

\* File f is the latest one while a parser thread runs (and the scanner may still
\* start another one).
IsLatest(f) ==
  /\ find_latest_log = f
  /\ \E s \in 1..Len(sess) : IsAlive(s)
  /\ Len(sess) < MaxSessions

\* A session bound to f is running and every other parser thread has ended.
RunsOn(f) ==
  \E s \in 1..Len(sess) :
    /\ sess[s].log_path = f
    /\ IsAlive(s)
    /\ \A r \in 1..Len(sess) : r # s => ~IsAlive(r)

\* C14: under fair scheduling of the scanner and parser threads, when a file
\* other than the scanner's current one is the most recently modified one and
\* stays so while the program is tailing, a session bound to that file eventually
\* runs, every older session having ended.
C14_RotationLiveness ==
  \A f \in Files : []((scanner.curr # f /\ []IsLatest(f)) => <>RunsOn(f))

\* C15: a session is replaced only when find_latest_log names another path than
\* the session's: a poll that finds the session's own file to be the latest leaves
\* the scanner polling, a stop event is set only for a session on another path
\* than the one the poll selected, and a new session is bound to another path than
\* the session it replaces.
C15_ReplacedOnlyOnOtherPath ==
  [][ /\ (scanner.pc = "poll" /\ find_latest_log = sess[scanner.parser].log_path) =>
           scanner' = scanner
      /\ \A s \in 1..Len(sess) :
           (~sess[s].parser_stop /\ sess'[s].parser_stop) =>
             scanner.curr # sess[s].log_path
      /\ (Len(sess) > 0 /\ Len(sess') > Len(sess)) =>
           sess'[Len(sess')].log_path # sess[Len(sess)].log_path ]_vars

\* Both writes went to the first session's file while an older file lay next to
\* it; the session has delivered what was appended and is still the only one.
C15_Witness ==
  /\ Len(dir) = 2
  /\ Len(sess) = 1
  /\ scanner.pc = "poll"
  /\ nwrites = MaxWrites
  /\ ~sess[1].parser_stop
  /\ sess[1].size0 = 0
  /\ CaughtUp(1)
  /\ sess[1].pos = Len(content[sess[1].log_path])
  /\ Len(content[sess[1].log_path]) > 1
  /\ Delivered(1) # {}

\* C16: once the stop event of a session is set, its tailer yields no further line:
\* no step delivers a line of a session whose stop event is set.
C16_NoYieldAfterStop ==
  [][ Len(delivered') > Len(delivered) =>
        ~sess[delivered'[Len(delivered')].sess].parser_stop ]_vars

\* Two or more eligible files share the largest modification time.
Tied ==
  LET files == SelectSeq(dir, IsEligible)
  IN  \E i, j \in 1..Len(files) :
        /\ i < j
        /\ mtime[files[i]] = mtime[files[j]]
        /\ \A k \in 1..Len(files) : mtime[files[k]] <= mtime[files[i]]

C18_WholeLines ==
  \A i \in 1..Len(delivered) :
    LET c == content[delivered[i].path]
    IN  delivered[i].from > sess[delivered[i].sess].size0 =>
          /\ delivered[i].from = 1 \/ c[delivered[i].from - 1] = LF
          /\ c[delivered[i].to] = LF

\* The deliveries of session s that begin in what its file held when the session
\* opened it.
PreExisting(s) ==
  {i \in Delivered(s) : delivered[i].from <= sess[s].size0}

\* C19: of what its file held when a session opened it, the session delivers at
\* most one line, the last one, and nothing when the file was empty; no earlier
\* line of the file is delivered by that session.
C19_OnlyLastPreExisting ==
  \A s \in 1..Len(sess) :
    /\ Cardinality(PreExisting(s)) <= 1
    /\ \A i \in PreExisting(s) :
         <<delivered[i].from, delivered[i].to>> = LastLineOf(content[sess[s].log_path], sess[s].size0)

\* A session started by a rotation found two lines in its file, delivered the
\* second and is reading at the end of the file.
C19_Witness ==
  /\ Len(sess) = 2
  /\ sess[2].size0 = 4
  /\ LastLineOf(content[sess[2].log_path], 4) = <<3, 4>>
  /\ sess[2].pc = "read"
  /\ sess[2].pos = 4
  /\ Cardinality(Delivered(2)) = 1
  /\ PreExisting(2) = Delivered(2)

\* C20: a poll made while a session exists that finds the directory empty ends the
\* scanner thread, and from then on nothing rotates: the scanner stays ended, no
\* parser thread is spawned, and every session keeps its path and its stop event
\* as they are, whatever appears in the directory.
C20_NoRotationAfterEmptyPoll ==
  [][ /\ (scanner.pc = "poll" /\ find_latest_log = NoFile /\ scanner' # scanner) =>
           scanner'.pc = "exited"
      /\ (scanner.pc = "exited" /\ scanner.parser # 0) =>
           /\ scanner' = scanner
           /\ Len(sess') = Len(sess)
           /\ \A s \in 1..Len(sess) :
                /\ sess'[s].log_path = sess[s].log_path
                /\ sess'[s].parser_stop = sess[s].parser_stop ]_vars

\* The scanner ended on an empty directory; a new file has appeared since, and the
\* one session still reads the file it was bound to.
C20_Witness ==
  /\ scanner.pc = "exited"
  /\ scanner.parser = 1
  /\ Len(sess) = 1
  /\ find_latest_log \in Files
  /\ find_latest_log # scanner.curr
  /\ sess[1].log_path = scanner.curr
  /\ sess[1].pc = "read"
  /\ ~sess[1].parser_stop

\* ------------------------------------------------------------------ matcher harness
Words ==
  { <<"<">>, <<">">>, <<">", " ">>, <<":">>, <<"M", " ">>,
    <<"a">>, <<"G">>, <<"x">>, <<"quit">>, <<"KICK">> }

ArgsSet ==
  [ nick : {<<"a">>},
    bot_nicks : {<<"G">>, <<"G", ",", "x">>},
    check_bot_nicks : BOOLEAN ]

RECURSIVE Flatten(_)
Flatten(ws) ==
  IF ws = <<>> THEN <<>> ELSE Head(ws) \o Flatten(Tail(ws))

\* The text tail yields for the line under test: its words, then the line feed.
MLine ==
  Flatten(mline) \o <<LF>>

MatchInit ==
  /\ args \in ArgsSet
  /\ mline = <<>>
  /\ mnotes = <<>>
  /\ mdone = FALSE
  /\ dir = <<>>
  /\ removed = {}
  /\ content = [f \in Files |-> <<>>]
  /\ mtime = [f \in Files |-> 0]
  /\ nwrites = 0
  /\ scanner = [pc |-> "first", curr |-> NoFile, parser |-> 0]
  /\ sess = <<>>
  /\ delivered = <<>>

\* The log writer produces one more word of the line.
MatchAppend ==
  /\ ~mdone
  /\ \E w \in Words :
       /\ Len(mline) < MaxWords
       /\ mline' = Append(mline, w)
  /\ UNCHANGED <<args, mnotes, mdone, tvars>>

\* The line is complete: tail yields it (with its line feed) to log_parse.
MatchParse ==
  /\ ~mdone
  /\ mnotes' = log_parse_line(MLine)
  /\ mdone' = TRUE
  /\ UNCHANGED <<args, mline, tvars>>

MatchNext ==
  \/ MatchAppend
  \/ MatchParse

SpecMatch ==
  MatchInit /\ [][MatchNext]_vars

\* ------------------------------------------------------------------ claims: matcher
\* C6: log_parse calls notify at most once for a line, whatever rules it satisfies.
C6_AtMostOneNotify ==
  mdone => Len(mnotes) <= 1

\* A line that satisfies the mention and the kick rule got one call.
C6_Witness ==
  /\ mdone
  /\ mnotes = <<"You've been mentioned">>
  /\ check_trigger(MLine, MentionTrigger, TRUE)
  /\ check_words(MLine, KickWords, TRUE)

Min(S) ==
  CHOOSE m \in S : \A n \in S : m <= n

\* The predicate of rule k on a line, and the title rule k notifies with.
RuleHolds(k, line) ==
  CASE k = 1 -> check_trigger(line, SelfTrigger, FALSE)
    [] k = 2 -> check_trigger(line, Marker, FALSE)
    [] k = 3 -> check_trigger(line, MentionTrigger, TRUE)
    [] k = 4 -> check_words(line, NetsplitWords, FALSE)
    [] k = 5 -> check_words(line, KickWords, TRUE)

RuleTitle ==
  << "Your interview is happening", "Interview detected", "You've been mentioned",
     "Netsplit detected", "You've been kicked" >>

\* C7: the notification is that of the lowest-numbered rule the line satisfies, and
\* there is none when it satisfies no rule; a line that satisfies the
\* self-interview and the mention rule notifies of the self-interview only.
C7_LowestRuleWins ==
  mdone =>
    LET holds == {k \in 1..5 : RuleHolds(k, MLine)}
    IN  /\ holds = {} => mnotes = <<>>
        /\ holds # {} => mnotes = <<RuleTitle[Min(holds)]>>
        /\ (1 \in holds /\ 3 \in holds) => mnotes = <<"Your interview is happening">>

\* A line that satisfies the self-interview and the mention rule was parsed.
C7_Witness ==
  /\ mdone
  /\ RuleHolds(1, MLine)
  /\ RuleHolds(3, MLine)
  /\ mnotes = <<"Your interview is happening">>

\* C8: a line whose text without its tags contains 'nick:' satisfies the mention
\* rule whether or not bot nicks are checked, and notifies of the mention when
\* neither interview rule matches.
C8_MentionIgnoresBotNicks ==
  (mdone /\ Contains(remove_html_tags(MLine), args.nick \o <<":">>)) =>
    /\ RuleHolds(3, MLine)
    /\ (~RuleHolds(1, MLine) /\ ~RuleHolds(2, MLine)) => mnotes = <<"You've been mentioned">>

\* With bot nicks checked, 'a<>:' (the mention shows once the tag is removed)
\* notified of the mention.
C8_Witness ==
  /\ mdone
  /\ args.check_bot_nicks
  /\ MLine = <<"a", "<", ">", ":", LF>>
  /\ mnotes = <<"You've been mentioned">>

\* The nick a line of the form '<nick> message' is attributed to: what stands
\* before the first ">", without the "<" that opens it.
RECURSIVE FirstIndex(_, _, _)
FirstIndex(s, c, i) ==
  IF i > Len(s) THEN 0 ELSE IF s[i] = c THEN i ELSE FirstIndex(s, c, i + 1)

Speaker(line) ==
  LET e == FirstIndex(line, ">", 1)
      b == IF Len(line) > 0 /\ line[1] = "<" THEN 2 ELSE 1
  IN  IF e = 0 THEN <<>> ELSE SubSeq(line, b, e - 1)

IsNick(s) ==
  /\ s # <<>>
  /\ \A i \in 1..Len(s) : s[i] \in {"a", "G", "x"}

\* C9: with bot nicks checked, the two interview rules fire only on lines spoken
\* by one of the bot nicks: a line spoken by any other nick fires neither.
C9_InterviewOnlyFromBots ==
  (mdone /\ args.check_bot_nicks /\ IsNick(Speaker(MLine)) /\ mnotes # <<>>
     /\ mnotes[1] \in {"Your interview is happening", "Interview detected"}) =>
    \E k \in 1..Len(bot_nicks_list) : Speaker(MLine) = bot_nicks_list[k]


====
